---- MODULE Spec2Model ----
(***************************************************************************)
(* A model of the Apito JavaScript SDK client (src/src/client.ts) and its  *)
(* error classes (src/src/types.ts).                                       *)
(*                                                                         *)
(* One ApitoClient is constructed from a ClientConfig.  Every operation is *)
(* an async method: its synchronous part validates the arguments, builds   *)
(* the GraphQL variables and hands one request to httpClient.post; when    *)
(* the transport settles, the rest of executeGraphQL and of the operation  *)
(* run and the call returns a value or raises an error.                    *)
(*                                                                         *)
(* JavaScript values are tagged tuples, so that undefined, null, the empty *)
(* string, numbers, booleans, objects and arrays stay distinct and the     *)
(* language's truthiness (!, ||, &&) is computed as JavaScript computes it.*)
(***************************************************************************)
EXTENDS Integers, Sequences, FiniteSets, TLC

VARIABLES config, client, calls

vars == <<config, client, calls>>

----------------------------------------------------------------------------
(* JavaScript values *)

Undefined == <<"undefined">>
Null == <<"null">>
Str(s) == <<"string", s>>
Bool(b) == <<"boolean", b>>
Num(n) == <<"number", n>>
Obj(fields) == <<"object", fields>>
Arr(elems) == <<"array", elems>>

EmptyObject == Obj(<<>>)

TypeOf(v) == v[1]

\* ToBoolean: undefined, null, "", 0 and false are falsy, everything else truthy.
Truthy(v) ==
    CASE TypeOf(v) = "undefined" -> FALSE
      [] TypeOf(v) = "null" -> FALSE
      [] TypeOf(v) = "string" -> v[2] /= ""
      [] TypeOf(v) = "number" -> v[2] /= 0
      [] TypeOf(v) = "boolean" -> v[2]
      [] OTHER -> TRUE

\* a || b
OrElse(a, b) == IF Truthy(a) THEN a ELSE b

IsNullish(v) == TypeOf(v) \in {"undefined", "null"}

\* Does object o have the own property k?
Has(o, k) == TypeOf(o) = "object" /\ k \in DOMAIN o[2]

\* o?.k : undefined on undefined/null and on a property that is not there.
Get(o, k) == IF Has(o, k) THEN o[2][k] ELSE Undefined

\* arr.length
Length(a) == Len(a[2])

\* { ...a, ...b } on the property maps of two objects: b's entries win.
Spread(a, b) ==
    [k \in (DOMAIN a) \cup (DOMAIN b) |-> IF k \in DOMAIN b THEN b[k] ELSE a[k]]

\* The property map that `...v` contributes: nothing for undefined or null.
Props(v) == IF TypeOf(v) = "object" THEN v[2] ELSE <<>>

\* obj[k] = v
Assign(fields, k, v) == Spread(fields, [x \in {k} |-> v])

\* function f(p = d): the default applies when the argument is undefined.
DefaultParam(v, d) == IF v = Undefined THEN d ELSE v

----------------------------------------------------------------------------
(* Error classes, src/src/types.ts *)

ApitoError(message, code, statusCode, details) ==
    [name |-> "ApitoError", message |-> message, code |-> code,
     statusCode |-> statusCode, details |-> details]

GraphQLError(message, graphQLErrors, response) ==
    [name |-> "GraphQLError", message |-> message, code |-> Str("GRAPHQL_ERROR"),
     statusCode |-> Undefined, details |-> Undefined,
     graphQLErrors |-> graphQLErrors, response |-> response]

ValidationError(message) ==
    [name |-> "ValidationError", message |-> message,
     code |-> Str("VALIDATION_ERROR"),
     statusCode |-> Undefined, details |-> Undefined, field |-> Undefined]

\* What the runtime raises on reading a property of undefined or null.
TypeError(message) == [name |-> "TypeError", message |-> message]

----------------------------------------------------------------------------
(* Results of a call: a returned value or a raised error *)

NoError == [name |-> "none"]

Return(v) == [kind |-> "returned", value |-> v, error |-> NoError]
Throw(e) == [kind |-> "raised", value |-> Undefined, error |-> e]
NoOutcome == [kind |-> "none", value |-> Undefined, error |-> NoError]

----------------------------------------------------------------------------
(* ApitoClient.constructor, src/src/client.ts:25-44 *)

DefaultTimeout == 30000

ContentTypeHeader == "Content-Type"
ApiKeyHeader == "X-Apito-Key"
TenantHeader == "X-Apito-Tenant-ID"

\* axios.create(config): an instance whose defaults are the given config.
AxiosCreate(options) == [defaults |-> options]

\* Seeded fault: the transport overrides are spread before the client's own
\* settings, which then win.
ApitoClientOverridesFirst(clientConfig) ==
    LET tenantId == clientConfig.tenantId
        created == AxiosCreate(Spread(
            Props(clientConfig.httpClient),
            [timeout |-> OrElse(clientConfig.timeout, Num(DefaultTimeout)),
             headers |-> Obj((ContentTypeHeader :> Str("application/json"))
                             @@ (ApiKeyHeader :> clientConfig.apiKey))]))
        httpClient ==
            IF Truthy(tenantId)
            THEN [created EXCEPT !.defaults.headers =
                     Obj(Assign(Props(@), TenantHeader, tenantId))]
            ELSE created
    IN  [baseURL |-> clientConfig.baseURL, apiKey |-> clientConfig.apiKey,
         tenantId |-> tenantId, httpClient |-> httpClient]

ApitoClient(clientConfig) ==
    LET tenantId == clientConfig.tenantId
        created == AxiosCreate(Spread(
            [timeout |-> OrElse(clientConfig.timeout, Num(DefaultTimeout)),
             headers |-> Obj((ContentTypeHeader :> Str("application/json"))
                             @@ (ApiKeyHeader :> clientConfig.apiKey))],
            Props(clientConfig.httpClient)))
        httpClient ==
            IF Truthy(tenantId)
            THEN [created EXCEPT !.defaults.headers =
                     Obj(Assign(Props(@), TenantHeader, tenantId))]
            ELSE created
    IN  [baseURL |-> clientConfig.baseURL, apiKey |-> clientConfig.apiKey,
         tenantId |-> tenantId, httpClient |-> httpClient]

----------------------------------------------------------------------------
(* ApitoClient.executeGraphQL, src/src/client.ts:49-95 *)

\* Seeded fault: the call leaves Content-Type and the API key to the defaults
\* of the instance and sends only the tenant header itself.
RequestHeadersFromDefaults(cl, options) ==
    IF Truthy(OrElse(Get(options, "tenantId"), cl.tenantId))
    THEN Obj(TenantHeader :> OrElse(Get(options, "tenantId"), cl.tenantId))
    ELSE EmptyObject

\* Seeded fault: the configured tenant id takes precedence over the per-call one.
RequestHeadersConfiguredFirst(cl, options) ==
    LET headers == (ContentTypeHeader :> Str("application/json"))
                   @@ (ApiKeyHeader :> cl.apiKey)
    IN  IF Truthy(OrElse(cl.tenantId, Get(options, "tenantId")))
        THEN Obj(Assign(headers, TenantHeader,
                        OrElse(cl.tenantId, Get(options, "tenantId"))))
        ELSE Obj(headers)

\* The headers object of one request (lines 60-67).
RequestHeaders(cl, options) ==
    LET headers == (ContentTypeHeader :> Str("application/json"))
                   @@ (ApiKeyHeader :> cl.apiKey)
    IN  IF Truthy(OrElse(Get(options, "tenantId"), cl.tenantId))
        THEN Obj(Assign(headers, TenantHeader,
                        OrElse(Get(options, "tenantId"), cl.tenantId)))
        ELSE Obj(headers)

\* The three arguments of this.httpClient.post (lines 55-73).
PostArguments(cl, query, variables, options) ==
    [url |-> cl.baseURL,
     data |-> [query |-> query, variables |-> OrElse(variables, EmptyObject)],
     config |-> [headers |-> RequestHeaders(cl, options)]]

\* The request axios sends for post(url, data, config) on an instance: the
\* instance defaults merged with the config of the call, whose entries win;
\* headers are merged name by name.
EffectiveTimeout(cl, request) ==
    IF "timeout" \in DOMAIN request.config
    THEN request.config.timeout
    ELSE cl.httpClient.defaults.timeout

EffectiveHeaders(cl, request) ==
    Obj(Spread(Props(cl.httpClient.defaults.headers),
               Props(request.config.headers)))

\* axios.isAxiosError(error)
IsAxiosError(error) == "isAxiosError" \in DOMAIN error /\ error.isAxiosError

\* Seeded fault: any errors member raises, also an empty one.
CheckEnvelopeAnyErrors(response) ==
    IF IsNullish(response.data)
    THEN Throw(TypeError(Str("Cannot read properties of null (reading 'errors')")))
    ELSE LET errors == Get(response.data, "errors")
         IN  IF Truthy(errors)
             THEN Throw(GraphQLError(Str("GraphQL query failed"), errors,
                                     response.data))
             ELSE Return(response.data)

\* Seeded fault: errors are ignored when the envelope also carries data.
CheckEnvelopeDataWins(response) ==
    IF IsNullish(response.data)
    THEN Throw(TypeError(Str("Cannot read properties of null (reading 'errors')")))
    ELSE LET errors == Get(response.data, "errors")
         IN  IF /\ Truthy(errors) /\ Length(errors) > 0
                /\ ~Truthy(Get(response.data, "data"))
             THEN Throw(GraphQLError(Str("GraphQL query failed"), errors,
                                     response.data))
             ELSE Return(response.data)

\* Lines 75-83: the envelope is response.data; reading .errors of an
\* undefined or null body raises a TypeError inside the try block.
CheckEnvelope(response) ==
    IF IsNullish(response.data)
    THEN Throw(TypeError(Str("Cannot read properties of null (reading 'errors')")))
    ELSE LET errors == Get(response.data, "errors")
         IN  IF Truthy(errors) /\ Length(errors) > 0
             THEN Throw(GraphQLError(Str("GraphQL query failed"), errors,
                                     response.data))
             ELSE Return(response.data)

\* Seeded fault: the message is read from the response body only.
CatchErrorBodyMessageOnly(error) ==
    IF IsAxiosError(error)
    THEN ApitoError(
             Get(Get(error.response, "data"), "message"),
             Str("HTTP_ERROR"),
             Get(error.response, "status"),
             Get(error.response, "data"))
    ELSE error

\* Seeded fault: the response body is not kept on the raised error.
CatchErrorNoDetails(error) ==
    IF IsAxiosError(error)
    THEN ApitoError(
             OrElse(Get(Get(error.response, "data"), "message"), error.message),
             Str("HTTP_ERROR"),
             Get(error.response, "status"),
             Undefined)
    ELSE error

\* Seeded fault: every error caught is wrapped, whatever raised it.
CatchErrorWrapsAll(error) ==
    ApitoError(
        error.message, Str("HTTP_ERROR"), Undefined, Undefined)

\* Seeded fault: a transport failure is reported as a ValidationError.
CatchErrorAsValidation(error) ==
    IF IsAxiosError(error)
    THEN ValidationError(
             OrElse(Get(Get(error.response, "data"), "message"), error.message))
    ELSE error

\* Seeded fault: a timeout is passed on as the transport raised it.
CatchErrorTimeoutUnwrapped(error) ==
    IF IsAxiosError(error) /\ error.code /= Str("ECONNABORTED")
    THEN ApitoError(
             OrElse(Get(Get(error.response, "data"), "message"), error.message),
             Str("HTTP_ERROR"),
             Get(error.response, "status"),
             Get(error.response, "data"))
    ELSE error

\* The catch block (lines 84-94): the error the executor raises for `error`.
CatchError(error) ==
    IF IsAxiosError(error)
    THEN ApitoError(
             OrElse(Get(Get(error.response, "data"), "message"), error.message),
             Str("HTTP_ERROR"),
             Get(error.response, "status"),
             Get(error.response, "data"))
    ELSE error

\* executeGraphQL from the point where the awaited post settles.
executeGraphQL(settled) ==
    LET tried == IF settled.status = "rejected"
                 THEN Throw(settled.reason)
                 ELSE CheckEnvelope(settled.response)
    IN  IF tried.kind = "raised" THEN Throw(CatchError(tried.error)) ELSE tried

----------------------------------------------------------------------------
(* The GraphQL documents: operation type, operation name, declared         *)
(* variables and the root field selected.                                  *)

Document(type, name, declared, field) ==
    [type |-> type, name |-> name, declared |-> declared, field |-> field]

\* Does the document text contain the word?
DocumentContains(doc, word) == word \in {doc.type, doc.name, doc.field}

GenerateTenantTokenQuery ==
    Document("mutation", "GenerateTenantToken", {"token", "tenantId"},
             "generateTenantToken")
GetSingleDataQuery ==
    Document("query", "GetSingleData", {"model", "_id", "single_page_data"},
             "getSingleData")
SearchQuery ==
    Document("query", "GetModelData",
             {"model", "page", "limit", "_key", "where", "search"}, "getModelData")
RelationQuery ==
    Document("query", "GetModelData",
             {"model", "page", "limit", "where", "search", "connection"},
             "getModelData")
CreateQuery ==
    Document("mutation", "CreateNewData",
             {"model", "single_page_data", "payload", "connect"}, "upsertModelData")
UpdateQuery ==
    Document("mutation", "UpdateModelData",
             {"_id", "model", "single_page_data", "force_update", "payload",
              "connect", "disconnect"}, "upsertModelData")
DeleteQuery ==
    Document("mutation", "DeleteData", {"model", "_id"}, "deleteModelData")
DebugQuery == Document("mutation", "Debug", {"stage", "data"}, "debug")

----------------------------------------------------------------------------
(* The operations, src/src/client.ts:100-444.  For each operation:         *)
(*   <op>Check(args)      the error raised before any request, or NoError  *)
(*   <op>Variables(args)  the variables object handed to executeGraphQL    *)
(*   <op>Result(envelope) what the operation does with the envelope that   *)
(*                        executeGraphQL returned                          *)

\* generateTenantToken(token, tenantId), lines 100-118
generateTenantTokenVariables(args) ==
    Obj([token |-> args.token, tenantId |-> args.tenantId])

generateTenantTokenOptions(args) == Obj([tenantId |-> args.tenantId])

\* Seeded fault: the selection is returned whole, without its token check.
generateTenantTokenResultWhole(response) ==
    Return(Get(Get(response, "data"), "generateTenantToken"))

generateTenantTokenResult(response) ==
    LET data == Get(Get(response, "data"), "generateTenantToken")
    IN  IF ~Truthy(Get(data, "token"))
        THEN Throw(ValidationError(Str("Invalid response format for tenant token")))
        ELSE Return(Get(data, "token"))

\* getSingleResource(model, id, singlePageData = false), lines 123-161
\* Seeded fault: single_page_data is passed on without its default.
getSingleResourceVariablesNoDefault(args) ==
    Obj([model |-> args.model, _id |-> args.id,
         single_page_data |-> args.singlePageData])

getSingleResourceVariables(args) ==
    Obj([model |-> args.model, _id |-> args.id,
         single_page_data |-> DefaultParam(args.singlePageData, Bool(FALSE))])

\* Seeded fault: only the payload of the document is returned.
getSingleResourceResultPayload(response) ==
    IF ~Truthy(Get(Get(response, "data"), "getSingleData"))
    THEN Throw(ValidationError(Str("Resource not found")))
    ELSE Return(Get(Get(Get(response, "data"), "getSingleData"), "data"))

getSingleResourceResult(response) ==
    IF ~Truthy(Get(Get(response, "data"), "getSingleData"))
    THEN Throw(ValidationError(Str("Resource not found")))
    ELSE Return(Get(Get(response, "data"), "getSingleData"))

\* searchResources(model, filter = {}, aggregate = false), lines 166-218
searchResourcesVariables(args) ==
    Obj(Spread([model |-> args.model],
               Props(DefaultParam(args.filter, EmptyObject))))

\* Seeded fault: the count is recomputed from the results that came back.
searchResourcesResultCountsResults(response) ==
    IF ~Truthy(Get(Get(response, "data"), "getModelData"))
    THEN Throw(ValidationError(Str("Invalid search response format")))
    ELSE LET found == Get(Get(response, "data"), "getModelData")
         IN  Return(Obj(Assign(Props(found), "count",
                               Num(Length(Get(found, "results"))))))

searchResourcesResult(response) ==
    IF ~Truthy(Get(Get(response, "data"), "getModelData"))
    THEN Throw(ValidationError(Str("Invalid search response format")))
    ELSE Return(Get(Get(response, "data"), "getModelData"))

\* getRelationDocuments(id, connection), lines 223-283
\* Seeded fault: the connection is not checked for a model.
getRelationDocumentsCheckNone(args) == NoError

getRelationDocumentsCheck(args) ==
    IF Truthy(Get(args.connection, "model"))
    THEN NoError
    ELSE ValidationError(Str("model is required in connection parameters"))

\* Seeded fault: the id is sent as _id, as the previous version did.
getRelationDocumentsVariablesWithId(args) ==
    LET connection == args.connection
        filter == Get(connection, "filter")
        Copy(variables, k) ==
            IF Get(filter, k) /= Undefined
            THEN Assign(variables, k, Get(filter, k))
            ELSE variables
        withModel == Assign([connection |-> connection, _id |-> args.id], "model",
                            Get(connection, "model"))
    IN  Obj(IF Truthy(filter)
            THEN Copy(Copy(Copy(Copy(withModel, "page"), "limit"), "where"), "search")
            ELSE withModel)

\* Seeded fault: the whole filter is merged into the variables.
getRelationDocumentsVariablesSpread(args) ==
    LET connection == args.connection
        withModel == Assign([connection |-> connection], "model",
                            Get(connection, "model"))
    IN  Obj(Spread(withModel, Props(Get(connection, "filter"))))

getRelationDocumentsVariables(args) ==
    LET connection == args.connection
        filter == Get(connection, "filter")
        Copy(variables, k) ==
            IF Get(filter, k) /= Undefined
            THEN Assign(variables, k, Get(filter, k))
            ELSE variables
        withModel == Assign([connection |-> connection], "model",
                            Get(connection, "model"))
    IN  Obj(IF Truthy(filter)
            THEN Copy(Copy(Copy(Copy(withModel, "page"), "limit"), "where"), "search")
            ELSE withModel)

\* Seeded fault: an absent getModelData becomes an empty result.
getRelationDocumentsResultEmpty(response) ==
    IF ~Truthy(Get(Get(response, "data"), "getModelData"))
    THEN Return(Obj([results |-> Arr(<<>>), count |-> Num(0)]))
    ELSE Return(Get(Get(response, "data"), "getModelData"))

getRelationDocumentsResult(response) ==
    IF ~Truthy(Get(Get(response, "data"), "getModelData"))
    THEN Throw(ValidationError(Str("Invalid relation documents response format")))
    ELSE Return(Get(Get(response, "data"), "getModelData"))

\* createNewResource(request), lines 288-336
\* Seeded fault: the payload is not checked.
createNewResourceCheckModelOnly(args) ==
    IF ~Truthy(Get(args.request, "model"))
    THEN ValidationError(Str("model is required"))
    ELSE NoError

createNewResourceCheck(args) ==
    IF ~Truthy(Get(args.request, "model"))
    THEN ValidationError(Str("model is required"))
    ELSE IF ~Truthy(Get(args.request, "payload"))
    THEN ValidationError(Str("payload is required"))
    ELSE NoError

\* Seeded fault: the variables are built as updateResource builds them, with
\* the request's id.
createNewResourceVariablesWithId(args) ==
    LET request == args.request
        variables ==
            [model |-> Get(request, "model"),
             payload |-> Get(request, "payload"),
             single_page_data |-> OrElse(Get(request, "singlePageData"), Bool(FALSE))]
        withId == IF Truthy(Get(request, "id"))
                  THEN Assign(variables, "_id", Get(request, "id"))
                  ELSE variables
    IN  Obj(IF Truthy(Get(request, "connect"))
            THEN Assign(withId, "connect", Get(request, "connect"))
            ELSE withId)

createNewResourceVariables(args) ==
    LET request == args.request
        variables ==
            [model |-> Get(request, "model"),
             payload |-> Get(request, "payload"),
             single_page_data |-> OrElse(Get(request, "singlePageData"), Bool(FALSE))]
    IN  Obj(IF Truthy(Get(request, "connect"))
            THEN Assign(variables, "connect", Get(request, "connect"))
            ELSE variables)

createNewResourceResult(response) ==
    IF ~Truthy(Get(Get(response, "data"), "upsertModelData"))
    THEN Throw(ValidationError(Str("Invalid create response format")))
    ELSE Return(Get(Get(response, "data"), "upsertModelData"))

\* updateResource(request), lines 341-401
\* Seeded fault: the model is checked before the id.
updateResourceCheckModelFirst(args) ==
    IF ~Truthy(Get(args.request, "model"))
    THEN ValidationError(Str("model is required"))
    ELSE IF ~Truthy(Get(args.request, "id"))
    THEN ValidationError(Str("id is required"))
    ELSE IF ~Truthy(Get(args.request, "payload"))
    THEN ValidationError(Str("payload is required"))
    ELSE NoError

updateResourceCheck(args) ==
    IF ~Truthy(Get(args.request, "id"))
    THEN ValidationError(Str("id is required"))
    ELSE IF ~Truthy(Get(args.request, "model"))
    THEN ValidationError(Str("model is required"))
    ELSE IF ~Truthy(Get(args.request, "payload"))
    THEN ValidationError(Str("payload is required"))
    ELSE NoError

updateResourceVariables(args) ==
    LET request == args.request
        variables ==
            [_id |-> Get(request, "id"),
             model |-> Get(request, "model"),
             payload |-> Get(request, "payload"),
             single_page_data |-> OrElse(Get(request, "singlePageData"), Bool(FALSE)),
             force_update |-> OrElse(Get(request, "forceUpdate"), Bool(FALSE))]
        withConnect ==
            IF Truthy(Get(request, "connect"))
            THEN Assign(variables, "connect", Get(request, "connect"))
            ELSE variables
    IN  Obj(IF Truthy(Get(request, "disconnect"))
            THEN Assign(withConnect, "disconnect", Get(request, "disconnect"))
            ELSE withConnect)

updateResourceResult(response) ==
    IF ~Truthy(Get(Get(response, "data"), "upsertModelData"))
    THEN Throw(ValidationError(Str("Invalid update response format")))
    ELSE Return(Get(Get(response, "data"), "upsertModelData"))

\* deleteResource(model, id), lines 406-421
deleteResourceVariables(args) == Obj([model |-> args.model, _id |-> args.id])

\* Seeded fault: the deleteModelData field is required, as the other
\* operations require theirs.
deleteResourceResultChecked(response) ==
    IF ~Truthy(Get(Get(response, "data"), "deleteModelData"))
    THEN Throw(ValidationError(Str("Invalid delete response format")))
    ELSE Return(Undefined)

deleteResourceResult(response) == Return(Undefined)

\* debug(stage, ...data), lines 426-444
debugVariables(args) == Obj([stage |-> args.stage, data |-> args.data])

\* Seeded fault: debug validates its answer like the other operations.
debugResultChecked(response) ==
    IF ~Truthy(Get(Get(response, "data"), "debug"))
    THEN Throw(ValidationError(Str("Invalid debug response format")))
    ELSE Return(Get(Get(response, "data"), "debug"))

debugResult(response) == Return(Get(Get(response, "data"), "debug"))

----------------------------------------------------------------------------
(* Dispatch on the operation name *)

Operations ==
    {"generateTenantToken", "getSingleResource", "searchResources",
     "getRelationDocuments", "createNewResource", "updateResource",
     "deleteResource", "debug"}

Query(op) ==
    CASE op = "generateTenantToken" -> GenerateTenantTokenQuery
      [] op = "getSingleResource" -> GetSingleDataQuery
      [] op = "searchResources" -> SearchQuery
      [] op = "getRelationDocuments" -> RelationQuery
      [] op = "createNewResource" -> CreateQuery
      [] op = "updateResource" -> UpdateQuery
      [] op = "deleteResource" -> DeleteQuery
      [] op = "debug" -> DebugQuery

Check(op, args) ==
    CASE op = "getRelationDocuments" -> getRelationDocumentsCheck(args)
      [] op = "createNewResource" -> createNewResourceCheck(args)
      [] op = "updateResource" -> updateResourceCheck(args)
      [] OTHER -> NoError

Variables(op, args) ==
    CASE op = "generateTenantToken" -> generateTenantTokenVariables(args)
      [] op = "getSingleResource" -> getSingleResourceVariables(args)
      [] op = "searchResources" -> searchResourcesVariables(args)
      [] op = "getRelationDocuments" -> getRelationDocumentsVariables(args)
      [] op = "createNewResource" -> createNewResourceVariables(args)
      [] op = "updateResource" -> updateResourceVariables(args)
      [] op = "deleteResource" -> deleteResourceVariables(args)
      [] op = "debug" -> debugVariables(args)

\* The third argument of executeGraphQL: only generateTenantToken passes one.
Options(op, args) ==
    IF op = "generateTenantToken" THEN generateTenantTokenOptions(args)
    ELSE Undefined

Result(op, response) ==
    CASE op = "generateTenantToken" -> generateTenantTokenResult(response)
      [] op = "getSingleResource" -> getSingleResourceResult(response)
      [] op = "searchResources" -> searchResourcesResult(response)
      [] op = "getRelationDocuments" -> getRelationDocumentsResult(response)
      [] op = "createNewResource" -> createNewResourceResult(response)
      [] op = "updateResource" -> updateResourceResult(response)
      [] op = "deleteResource" -> deleteResourceResult(response)
      [] op = "debug" -> debugResult(response)

\* The operation from the point where the awaited executeGraphQL settles.
Complete(op, settled) ==
    LET executed == executeGraphQL(settled)
    IN  IF executed.kind = "raised" THEN executed ELSE Result(op, executed.value)

----------------------------------------------------------------------------
(* One call of an operation *)

NoRequest == [url |-> Undefined]
NoSettlement == [status |-> "none"]

Idle ==
    [pc |-> "idle", op |-> "none", args |-> <<>>, posts |-> 0,
     request |-> NoRequest, settled |-> NoSettlement, outcome |-> NoOutcome]

\* The synchronous part of an operation, up to its first await: the argument
\* check raises before anything is sent, otherwise executeGraphQL hands one
\* request to httpClient.post and the call waits for it.
Invoke(cl, op, args) ==
    IF Check(op, args) /= NoError
    THEN [Idle EXCEPT !.pc = "done", !.op = op, !.args = args,
                      !.outcome = Throw(Check(op, args))]
    ELSE [Idle EXCEPT !.pc = "pending", !.op = op, !.args = args,
                      !.posts = 1,
                      !.request = PostArguments(cl, Query(op), Variables(op, args),
                                                Options(op, args))]

\* Seeded fault: a rejected post is sent again before the call gives up.
ResumeRetry(call, settled) ==
    [call EXCEPT !.pc = "done", !.settled = settled,
                 !.posts = IF settled.status = "rejected" THEN call.posts + 1
                           ELSE call.posts,
                 !.outcome = Complete(call.op, settled)]

\* The rest of the call once the post has settled.
Resume(call, settled) ==
    [call EXCEPT !.pc = "done", !.settled = settled,
                 !.outcome = Complete(call.op, settled)]

----------------------------------------------------------------------------
(* Inputs *)

MaxErrors == 2
MaxRest == 2

SeqsUpTo(S, n) == UNION {[1..k -> S] : k \in 0..n}

\* An object literal whose undefined members are left out.
Literal(fields) ==
    Obj([k \in {x \in DOMAIN fields : fields[x] /= Undefined} |-> fields[k]])

Configs ==
    [baseURL : {Str("https://api.apito.io/graphql")},
     apiKey : {Str("test-api-key")},
     tenantId : {Undefined, Str(""), Str("tenant-a")},
     timeout : {Undefined, Num(0), Num(5000)},
     httpClient : {Undefined, Obj([maxRedirects |-> Num(5)]),
                   Obj([timeout |-> Num(1000)]),
                   Obj([headers |-> Obj((ContentTypeHeader :> Str("text/plain"))
                                        @@ (ApiKeyHeader :> Str("other-key")))])}]

Models == {Str("todos"), Str("")}
Ids == {Str("123"), Str("456")}
Flags == {Undefined, Bool(TRUE), Bool(FALSE)}

Filters ==
    {Undefined,
     Obj([where |-> Obj([status |-> Str("todo")]), limit |-> Num(10)]),
     Obj([model |-> Str("users"), page |-> Num(2)])}

Connections ==
    {Obj([relation |-> Str("test")]),
     Obj([filter |-> Obj([limit |-> Num(5)])]),
     Obj([model |-> Str(""), field |-> Str("assigned_to")]),
     Obj([model |-> Str("users"), field |-> Str("assigned_to")]),
     Obj([model |-> Str("users"),
          filter |-> Obj([page |-> Num(1), limit |-> Num(10),
                          sort |-> Obj([title |-> Num(1)])])]),
     Obj([model |-> Str("users"), _id |-> Str("123"),
          filter |-> Obj([where |-> Obj([done |-> Bool(FALSE)]),
                          search |-> Str("milk"), page |-> Null])])}

Payloads == {Undefined, EmptyObject, Obj([title |-> Str("Test Todo")])}
Relations == {Undefined, Obj([user |-> Str("u1")])}

Requests ==
    {Literal([model |-> m, payload |-> p, id |-> i, connect |-> r,
              disconnect |-> x[1], singlePageData |-> x[2], forceUpdate |-> x[2]]) :
        m \in {Undefined, Str(""), Str("todos")},
        p \in Payloads,
        i \in {Undefined, Str(""), Str("123")},
        r \in Relations,
        x \in {<<Undefined, Undefined>>, <<Obj([tag |-> Str("t1")]), Bool(TRUE)>>}}

Tokens == {Str("token-1")}
TenantIds == {Undefined, Str(""), Str("tenant-a"), Str("tenant-b")}
Stages == {Str("init")}
RestArguments == {Arr(s) : s \in SeqsUpTo({Obj([step |-> Num(1)])}, MaxRest)}

----------------------------------------------------------------------------
(* What the transport can answer *)

Doc1 ==
    Obj([id |-> Str("123"),
         data |-> Obj([title |-> Str("Test Todo"), status |-> Str("todo")]),
         meta |-> Obj([created_at |-> Str("2024-01-01T00:00:00Z")])])
Doc2 ==
    Obj([id |-> Str("456"), data |-> EmptyObject, type |-> Str("todos"),
         tenant_id |-> Str("tenant-b")])

FieldValues(op) ==
    CASE op = "generateTenantToken" ->
            {EmptyObject, Obj([token |-> Str("")]), Obj([token |-> Str("jwt-1")])}
      [] op \in {"getSingleResource", "createNewResource", "updateResource"} ->
            {Null, Doc1, Doc2}
      [] op \in {"searchResources", "getRelationDocuments"} ->
            {Null,
             Obj([results |-> Arr(<<>>), count |-> Num(0)]),
             Obj([results |-> Arr(<<Doc2, Doc1>>), count |-> Num(7)]),
             Obj([results |-> Arr(<<Doc1>>), count |-> Num(1),
                  aggregations |-> Obj([total |-> Num(1)])])}
      [] op = "deleteResource" -> {Null, Obj([id |-> Str("123")])}
      [] op = "debug" -> {Null, Obj([message |-> Str("ok"), data |-> Arr(<<>>)])}

DataValues(op) ==
    {Undefined, Null, EmptyObject}
    \cup {Obj([f \in {Query(op).field} |-> v]) : v \in FieldValues(op)}

GraphQLErrors ==
    {Obj([message |-> Str("Cannot query field")]),
     Obj([message |-> Str("Forbidden"), path |-> Arr(<<Str("getSingleData")>>)])}

ErrorLists == {Undefined} \cup {Arr(s) : s \in SeqsUpTo(GraphQLErrors, MaxErrors)}

\* The bodies of a 2xx response: JSON null, or an envelope.
Bodies(op) ==
    {Null} \cup {Literal([data |-> d, errors |-> e]) :
                    d \in DataValues(op), e \in ErrorLists}

Fulfilled(op) ==
    {[status |-> "fulfilled", response |-> [status |-> Num(200), data |-> b]] :
        b \in Bodies(op)}

AxiosError(message, code, response) ==
    [name |-> "AxiosError", message |-> message, code |-> code,
     isAxiosError |-> TRUE, response |-> response]

ErrorBodies ==
    {Undefined, Str("<html>Bad Gateway</html>"), EmptyObject,
     Obj([message |-> Str("")]), Obj([message |-> Str("Unauthorized")])}

Reasons ==
    {AxiosError(Str("Network Error"), Str("ERR_NETWORK"), Undefined),
     AxiosError(Str("timeout of 30000ms exceeded"), Str("ECONNABORTED"), Undefined),
     [name |-> "Error", message |-> Str("Network error")]}
    \cup {AxiosError(Str("Request failed with status code 500"),
                     Str("ERR_BAD_RESPONSE"),
                     Obj([status |-> Num(500), data |-> b])) : b \in ErrorBodies}

Rejected == {[status |-> "rejected", reason |-> r] : r \in Reasons}

----------------------------------------------------------------------------
(* The state machine *)

CallIds == {"c1"}

Init ==
    /\ config \in Configs
    /\ client = ApitoClient(config)
    /\ calls = [c \in CallIds |-> Idle]

\* calls after call c has run the synchronous part of op(args).
Started(c, op, args) == [calls EXCEPT ![c] = Invoke(client, op, args)]

\* calls after the post of call c has settled and the call has run to its end.
Settled(c, settled) == [calls EXCEPT ![c] = Resume(calls[c], settled)]

generateTenantToken(c) ==
    /\ calls[c].pc = "idle"
    /\ \E token \in Tokens, tenantId \in TenantIds :
          calls' = Started(c, "generateTenantToken",
                           [token |-> token, tenantId |-> tenantId])
    /\ UNCHANGED <<config, client>>

getSingleResource(c) ==
    /\ calls[c].pc = "idle"
    /\ \E model \in Models, id \in Ids, singlePageData \in Flags :
          calls' = Started(c, "getSingleResource",
                           [model |-> model, id |-> id,
                            singlePageData |-> singlePageData])
    /\ UNCHANGED <<config, client>>

searchResources(c) ==
    /\ calls[c].pc = "idle"
    /\ \E model \in Models, filter \in Filters, aggregate \in Flags :
          calls' = Started(c, "searchResources",
                           [model |-> model, filter |-> filter,
                            aggregate |-> aggregate])
    /\ UNCHANGED <<config, client>>

getRelationDocuments(c) ==
    /\ calls[c].pc = "idle"
    /\ \E id \in Ids, connection \in Connections :
          calls' = Started(c, "getRelationDocuments",
                           [id |-> id, connection |-> connection])
    /\ UNCHANGED <<config, client>>

createNewResource(c) ==
    /\ calls[c].pc = "idle"
    /\ \E request \in Requests :
          calls' = Started(c, "createNewResource", [request |-> request])
    /\ UNCHANGED <<config, client>>

updateResource(c) ==
    /\ calls[c].pc = "idle"
    /\ \E request \in Requests :
          calls' = Started(c, "updateResource", [request |-> request])
    /\ UNCHANGED <<config, client>>

deleteResource(c) ==
    /\ calls[c].pc = "idle"
    /\ \E model \in Models, id \in Ids :
          calls' = Started(c, "deleteResource", [model |-> model, id |-> id])
    /\ UNCHANGED <<config, client>>

debug(c) ==
    /\ calls[c].pc = "idle"
    /\ \E stage \in Stages, data \in RestArguments :
          calls' = Started(c, "debug", [stage |-> stage, data |-> data])
    /\ UNCHANGED <<config, client>>

\* The transport answers with a 2xx response.
Respond(c) ==
    /\ calls[c].pc = "pending"
    /\ \E settled \in Fulfilled(calls[c].op) : calls' = Settled(c, settled)
    /\ UNCHANGED <<config, client>>

\* The transport fails: a network error, a timeout, a non-2xx status.
Fail(c) ==
    /\ calls[c].pc = "pending"
    /\ \E settled \in Rejected : calls' = Settled(c, settled)
    /\ UNCHANGED <<config, client>>

\* The caller has its result; the next call may start.
Finish(c) ==
    /\ calls[c].pc = "done"
    /\ calls' = [calls EXCEPT ![c] = Idle]
    /\ UNCHANGED <<config, client>>

Next ==
    \E c \in CallIds :
        \/ generateTenantToken(c)
        \/ getSingleResource(c)
        \/ searchResources(c)
        \/ getRelationDocuments(c)
        \/ createNewResource(c)
        \/ updateResource(c)
        \/ deleteResource(c)
        \/ debug(c)
        \/ Respond(c)
        \/ Fail(c)
        \/ Finish(c)

Spec == Init /\ [][Next]_vars

----------------------------------------------------------------------------
(* TypedOperations: every method awaits the method of the wrapped client   *)
(* and narrows the type of what came back.                                 *)

TypedMethods ==
    {"getSingleResourceTyped", "searchResourcesTyped", "getRelationDocumentsTyped",
     "createNewResourceTyped", "updateResourceTyped"}

\* The client method a typed method calls.
Delegate(op) ==
    CASE op = "getSingleResourceTyped" -> "getSingleResource"
      [] op = "searchResourcesTyped" -> "searchResources"
      [] op = "getRelationDocumentsTyped" -> "getRelationDocuments"
      [] op = "createNewResourceTyped" -> "createNewResource"
      [] op = "updateResourceTyped" -> "updateResource"

\* Seeded fault: searchResourcesTyped does not pass its filter on.
TypedArgumentsNoFilter(op, args) ==
    CASE op = "getSingleResourceTyped" ->
            [args EXCEPT !.singlePageData = DefaultParam(@, Bool(FALSE))]
      [] op = "searchResourcesTyped" ->
            [args EXCEPT !.filter = EmptyObject,
                         !.aggregate = DefaultParam(@, Bool(FALSE))]
      [] OTHER -> args

\* The arguments a typed method hands to the client method: its own, with
\* the defaults of its parameters applied (singlePageData = false,
\* filter = {}, aggregate = false).
TypedArguments(op, args) ==
    CASE op = "getSingleResourceTyped" ->
            [args EXCEPT !.singlePageData = DefaultParam(@, Bool(FALSE))]
      [] op = "searchResourcesTyped" ->
            [args EXCEPT !.filter = DefaultParam(@, EmptyObject),
                         !.aggregate = DefaultParam(@, Bool(FALSE))]
      [] OTHER -> args

\* What a typed method returns for the value the client method returned: the
\* value itself (a cast), or { results: result.results, count: result.count }.
TypedReturn(op, result) ==
    IF op \in {"searchResourcesTyped", "getRelationDocumentsTyped"}
    THEN Obj([results |-> Get(result, "results"), count |-> Get(result, "count")])
    ELSE result

\* A typed method up to the await inside the client method it calls.
TypedInvoke(cl, op, args) ==
    [Invoke(cl, Delegate(op), TypedArguments(op, args))
        EXCEPT !.op = op, !.args = args]

\* A typed method once the post of the client method has settled: an error of
\* the client method passes through, a value is narrowed.
TypedResume(call, settled) ==
    LET inner == Complete(Delegate(call.op), settled)
    IN  [call EXCEPT !.pc = "done", !.settled = settled,
                     !.outcome = IF inner.kind = "raised" THEN inner
                                 ELSE Return(TypedReturn(call.op, inner.value))]

getSingleResourceTyped(c) ==
    /\ calls[c].pc = "idle"
    /\ \E model \in Models, id \in Ids, singlePageData \in Flags :
          calls' = [calls EXCEPT ![c] =
                       TypedInvoke(client, "getSingleResourceTyped",
                                   [model |-> model, id |-> id,
                                    singlePageData |-> singlePageData])]
    /\ UNCHANGED <<config, client>>

searchResourcesTyped(c) ==
    /\ calls[c].pc = "idle"
    /\ \E model \in Models, filter \in Filters, aggregate \in Flags :
          calls' = [calls EXCEPT ![c] =
                       TypedInvoke(client, "searchResourcesTyped",
                                   [model |-> model, filter |-> filter,
                                    aggregate |-> aggregate])]
    /\ UNCHANGED <<config, client>>

getRelationDocumentsTyped(c) ==
    /\ calls[c].pc = "idle"
    /\ \E id \in Ids, connection \in Connections :
          calls' = [calls EXCEPT ![c] =
                       TypedInvoke(client, "getRelationDocumentsTyped",
                                   [id |-> id, connection |-> connection])]
    /\ UNCHANGED <<config, client>>

createNewResourceTyped(c) ==
    /\ calls[c].pc = "idle"
    /\ \E request \in Requests :
          calls' = [calls EXCEPT ![c] =
                       TypedInvoke(client, "createNewResourceTyped",
                                   [request |-> request])]
    /\ UNCHANGED <<config, client>>

updateResourceTyped(c) ==
    /\ calls[c].pc = "idle"
    /\ \E request \in Requests :
          calls' = [calls EXCEPT ![c] =
                       TypedInvoke(client, "updateResourceTyped",
                                   [request |-> request])]
    /\ UNCHANGED <<config, client>>

\* The transport answers the post of a typed call with a 2xx response.
RespondTyped(c) ==
    /\ calls[c].pc = "pending"
    /\ \E settled \in Fulfilled(Delegate(calls[c].op)) :
          calls' = [calls EXCEPT ![c] = TypedResume(calls[c], settled)]
    /\ UNCHANGED <<config, client>>

\* The transport fails the post of a typed call.
FailTyped(c) ==
    /\ calls[c].pc = "pending"
    /\ \E settled \in Rejected :
          calls' = [calls EXCEPT ![c] = TypedResume(calls[c], settled)]
    /\ UNCHANGED <<config, client>>

NextTyped ==
    \E c \in CallIds :
        \/ getSingleResourceTyped(c)
        \/ searchResourcesTyped(c)
        \/ getRelationDocumentsTyped(c)
        \/ createNewResourceTyped(c)
        \/ updateResourceTyped(c)
        \/ RespondTyped(c)
        \/ FailTyped(c)
        \/ Finish(c)

\* The client used through its typed facade only.
SpecTyped == Init /\ [][NextTyped]_vars

----------------------------------------------------------------------------
(* Several calls on one client.  A caller may start a call while others    *)
(* are waiting for their answers (Promise.all over client methods), and    *)
(* the answers arrive in any order.                                        *)

ConcurrentIds == {"c1", "c2"}

SampleCalls ==
    {[op |-> "generateTenantToken",
      args |-> [token |-> Str("token-1"), tenantId |-> Str("tenant-b")]],
     [op |-> "generateTenantToken",
      args |-> [token |-> Str("token-1"), tenantId |-> Str("")]],
     [op |-> "getSingleResource",
      args |-> [model |-> Str("todos"), id |-> Str("123"),
                singlePageData |-> Undefined]],
     [op |-> "searchResources",
      args |-> [model |-> Str("todos"), filter |-> Obj([limit |-> Num(10)]),
                aggregate |-> Undefined]],
     [op |-> "createNewResource",
      args |-> [request |-> Obj([model |-> Str("todos")])]],
     [op |-> "deleteResource", args |-> [model |-> Str("todos"), id |-> Str("123")]],
     [op |-> "deleteResource", args |-> [model |-> Str("todos"), id |-> Str("456")]]}

\* A good answer, an answer without the field, an answer with an error, and
\* three transport failures.
SampleSettlements(op) ==
    {s \in Fulfilled(op) :
        s.response.data \in
            {Obj([data |-> Obj([f \in {Query(op).field} |->
                                   IF op = "generateTenantToken"
                                   THEN Obj([token |-> Str("jwt-1")])
                                   ELSE IF op \in {"searchResources",
                                                   "getRelationDocuments"}
                                   THEN Obj([results |-> Arr(<<>>), count |-> Num(0)])
                                   ELSE IF op = "deleteResource"
                                   THEN Obj([id |-> Str("123")])
                                   ELSE Doc1])]),
             Obj([data |-> EmptyObject]),
             Obj([data |-> Null,
                  errors |-> Arr(<<Obj([message |-> Str("Cannot query field")])>>)])}}
    \cup {s \in Rejected :
            \/ ~("response" \in DOMAIN s.reason)
            \/ s.reason.response = Undefined
            \/ Get(s.reason.response, "data") = Obj([message |-> Str("Unauthorized")])}

InitConcurrent ==
    /\ config \in Configs
    /\ client = ApitoClient(config)
    /\ calls = [c \in ConcurrentIds |-> Idle]

\* Seeded fault: deleteResource remembers what it has deleted on the instance.
InstanceAfterRemembersDeleted(cl, op, args) ==
    IF op = "deleteResource"
    THEN [k \in DOMAIN cl \cup {"deleted"} |->
            IF k = "deleted" THEN args.id ELSE cl[k]]
    ELSE cl

\* Seeded fault: generateTenantToken keeps its tenant id on the instance.
InstanceAfterKeepsTenant(cl, op, args) ==
    IF op = "generateTenantToken" /\ Truthy(args.tenantId)
    THEN [cl EXCEPT !.tenantId = args.tenantId]
    ELSE cl

\* The fields of the instance after the synchronous part of an operation: no
\* operation and no step of executeGraphQL assigns to this.baseURL,
\* this.apiKey, this.tenantId or this.httpClient; the per-call tenant id lives
\* in the local headers object only.
InstanceAfter(cl, op, args) == cl

\* A caller starts an operation on the shared client.
Call(c) ==
    /\ calls[c].pc = "idle"
    /\ \E call \in SampleCalls :
          /\ calls' = Started(c, call.op, call.args)
          /\ client' = InstanceAfter(client, call.op, call.args)
    /\ UNCHANGED config

\* The post of one of the waiting calls settles.
Settle(c) ==
    /\ calls[c].pc = "pending"
    /\ \E settled \in SampleSettlements(calls[c].op) : calls' = Settled(c, settled)
    /\ UNCHANGED <<config, client>>

NextConcurrent ==
    \E c \in ConcurrentIds :
        \/ Call(c)
        \/ Settle(c)
        \/ Finish(c)

SpecConcurrent == InitConcurrent /\ [][NextConcurrent]_vars

\* The transport settles every post: with an answer, with a failure, or, at
\* the latest when the timeout given to axios.create runs out, with a timeout
\* error; the awaiting call is then resumed by the event loop.
NextSequential ==
    \E c \in CallIds :
        \/ Call(c)
        \/ Settle(c)
        \/ Finish(c)

SpecLive ==
    /\ Init
    /\ [][NextSequential]_vars
    /\ \A c \in CallIds : WF_vars(Settle(c))

----------------------------------------------------------------------------
(* The error classes used directly: a caller (or a test) constructs an     *)
(* error with new and reads its properties.                                *)

\* Reading a property of an error object: undefined when it has none.
Property(error, key) == IF key \in DOMAIN error THEN error[key] ELSE Undefined

Messages == {Str("Test error"), Str("GraphQL error")}
Codes == {Undefined, Str("VALIDATION_ERROR"), Str("HTTP_ERROR")}
ThirdArguments ==
    {Undefined, Num(500), Arr(<<>>),
     Arr(<<Obj([message |-> Str("Validation failed")])>>)}
FourthArguments == {Undefined, Obj([message |-> Str("Unauthorized")])}

\* A finished construction: the arguments given to new and the object made.
Constructed(class, arguments, error) ==
    [Idle EXCEPT !.pc = "done", !.op = class, !.args = arguments,
                 !.outcome = Return(error)]

\* new ApitoError(message, code, third, fourth); arguments left out are
\* undefined.
NewApitoError(c) ==
    /\ calls[c].pc = "idle"
    /\ \E message \in Messages, code \in Codes,
          third \in ThirdArguments, fourth \in FourthArguments :
          calls' = [calls EXCEPT ![c] =
                       Constructed("ApitoError",
                                   <<message, code, third, fourth>>,
                                   ApitoError(message, code, third, fourth))]
    /\ UNCHANGED <<config, client>>

\* new GraphQLError(message, graphQLErrors, response)
NewGraphQLError(c) ==
    /\ calls[c].pc = "idle"
    /\ \E message \in Messages, graphQLErrors \in ThirdArguments \ {Undefined, Num(500)},
          response \in FourthArguments :
          calls' = [calls EXCEPT ![c] =
                       Constructed("GraphQLError",
                                   <<message, graphQLErrors, response>>,
                                   GraphQLError(message, graphQLErrors, response))]
    /\ UNCHANGED <<config, client>>

\* new ValidationError(message)
NewValidationError(c) ==
    /\ calls[c].pc = "idle"
    /\ \E message \in Messages :
          calls' = [calls EXCEPT ![c] =
                       Constructed("ValidationError", <<message>>,
                                   ValidationError(message))]
    /\ UNCHANGED <<config, client>>

NextErrors ==
    \E c \in CallIds :
        \/ NewApitoError(c)
        \/ NewGraphQLError(c)
        \/ NewValidationError(c)
        \/ Finish(c)

SpecErrors == Init /\ [][NextErrors]_vars

----------------------------------------------------------------------------
(* Vocabulary of the properties *)

Done(c) == calls[c].pc = "done"
Posted(c) == calls[c].posts > 0
Raised(c) == calls[c].outcome.kind = "raised"
Returned(c) == calls[c].outcome.kind = "returned"
RaisedError(c) == calls[c].outcome.error

\* The call raised a ValidationError with this message.
RaisedValidation(c, text) ==
    /\ Raised(c)
    /\ RaisedError(c).name = "ValidationError"
    /\ RaisedError(c).message = Str(text)

\* A required argument is missing when the caller gave no usable value for it:
\* it is left out, null or empty (the code tests it with !).
Missing(v) == ~Truthy(v)

\* The post of call c was answered 2xx / was rejected by the transport.
Answered(c) == Done(c) /\ calls[c].settled.status = "fulfilled"
Failed(c) == Done(c) /\ calls[c].settled.status = "rejected"

\* The body of the 2xx answer of call c (the envelope).
Envelope(c) == calls[c].settled.response.data

\* The envelope carries at least one GraphQL error.
HasErrors(body) ==
    /\ TypeOf(Get(body, "errors")) = "array"
    /\ Length(Get(body, "errors")) > 0

\* An envelope (an object) without GraphQL errors.
CleanEnvelope(body) == TypeOf(body) = "object" /\ ~HasErrors(body)

\* The field of the envelope's data that the operation unwraps.
ExpectedField(c) == Get(Get(Envelope(c), "data"), Query(calls[c].op).field)

\* The transport error of call c, and whether it came with a response.
Reason(c) == calls[c].settled.reason
HasResponse(reason) ==
    "response" \in DOMAIN reason /\ reason.response /= Undefined

----------------------------------------------------------------------------
(* C1..C10 *)

\* C1: whenever the post succeeds and the envelope's errors sequence is not
\* empty, the call raises a GraphQLError whose graphQLErrors is that sequence
\* and whose response is the raw envelope, whether or not data is populated;
\* it never returns a value.
C1_ErrorsAlwaysRaise ==
    \A c \in CallIds :
        (Answered(c) /\ HasErrors(Envelope(c))) =>
            /\ ~Returned(c)
            /\ Raised(c)
            /\ RaisedError(c).name = "GraphQLError"
            /\ RaisedError(c).graphQLErrors = Get(Envelope(c), "errors")
            /\ RaisedError(c).response = Envelope(c)

\* An envelope with two errors next to a populated data field was answered.
C1_Witness ==
    \E c \in CallIds :
        /\ Answered(c)
        /\ HasErrors(Envelope(c))
        /\ Length(Get(Envelope(c), "errors")) = 2
        /\ Truthy(ExpectedField(c))

\* C2: a createNewResource whose request lacks model or payload raises a
\* ValidationError, 'model is required' when model is missing and otherwise
\* 'payload is required', and posts nothing.
C2_CreateValidatesFirst ==
    \A c \in CallIds :
        LET request == calls[c].args.request
        IN  (/\ calls[c].op = "createNewResource"
             /\ Missing(Get(request, "model")) \/ Missing(Get(request, "payload"))) =>
                /\ Done(c)
                /\ calls[c].posts = 0
                /\ calls[c].request = NoRequest
                /\ RaisedValidation(c, IF Missing(Get(request, "model"))
                                       THEN "model is required"
                                       ELSE "payload is required")

\* A create with a model and no payload was refused.
C2_Witness ==
    \E c \in CallIds :
        /\ calls[c].op = "createNewResource"
        /\ Truthy(Get(calls[c].args.request, "model"))
        /\ ~Has(calls[c].args.request, "payload")
        /\ Raised(c)

\* C3: an updateResource whose request lacks id, model or payload raises a
\* ValidationError naming the first missing field in the order id, model,
\* payload, and posts nothing.
C3_UpdateValidatesFirst ==
    \A c \in CallIds :
        LET request == calls[c].args.request
        IN  (/\ calls[c].op = "updateResource"
             /\ \/ Missing(Get(request, "id"))
                \/ Missing(Get(request, "model"))
                \/ Missing(Get(request, "payload"))) =>
                /\ Done(c)
                /\ calls[c].posts = 0
                /\ calls[c].request = NoRequest
                /\ RaisedValidation(c,
                       IF Missing(Get(request, "id")) THEN "id is required"
                       ELSE IF Missing(Get(request, "model")) THEN "model is required"
                       ELSE "payload is required")

\* An update without id and without model was refused.
C3_Witness ==
    \E c \in CallIds :
        /\ calls[c].op = "updateResource"
        /\ ~Has(calls[c].args.request, "id")
        /\ ~Has(calls[c].args.request, "model")
        /\ Has(calls[c].args.request, "payload")
        /\ Raised(c)

\* C4: a getRelationDocuments whose connection has no model raises
\* ValidationError('model is required in connection parameters') and posts
\* nothing, whatever the id and whatever else the connection holds.
C4_RelationNeedsModel ==
    \A c \in CallIds :
        (/\ calls[c].op = "getRelationDocuments"
         /\ Missing(Get(calls[c].args.connection, "model"))) =>
            /\ Done(c)
            /\ calls[c].posts = 0
            /\ calls[c].request = NoRequest
            /\ RaisedValidation(c, "model is required in connection parameters")

\* A connection with a filter and no model was refused.
C4_Witness ==
    \E c \in CallIds :
        /\ calls[c].op = "getRelationDocuments"
        /\ ~Has(calls[c].args.connection, "model")
        /\ Has(calls[c].args.connection, "filter")
        /\ Raised(c)

\* C5: getSingleResource(model, id, singlePageData) issues one post to the
\* configured endpoint whose variables are exactly {model, _id: id,
\* single_page_data: singlePageData}, false when singlePageData is omitted,
\* and whose document contains getSingleData.
C5_GetSingleRequest ==
    \A c \in CallIds :
        calls[c].op = "getSingleResource" =>
            /\ calls[c].posts = 1
            /\ calls[c].request.url = config.baseURL
            /\ calls[c].request.data.variables =
                   Obj([model |-> calls[c].args.model,
                        _id |-> calls[c].args.id,
                        single_page_data |->
                            IF calls[c].args.singlePageData = Undefined
                            THEN Bool(FALSE)
                            ELSE calls[c].args.singlePageData])
            /\ DocumentContains(calls[c].request.data.query, "getSingleData")

\* A getSingleResource without singlePageData is waiting for its answer.
C5_Witness ==
    \E c \in CallIds :
        /\ calls[c].op = "getSingleResource"
        /\ calls[c].pc = "pending"
        /\ calls[c].args.singlePageData = Undefined

\* C6: when the answer to getSingleResource is an envelope without errors
\* whose data.getSingleData is a document, the call returns that document
\* unchanged.
C6_GetSingleRoundTrip ==
    \A c \in CallIds :
        (/\ calls[c].op = "getSingleResource"
         /\ Answered(c)
         /\ CleanEnvelope(Envelope(c))
         /\ TypeOf(ExpectedField(c)) = "object") =>
            calls[c].outcome = Return(ExpectedField(c))

\* getSingleResource returned a document that carries more than id and data.
C6_Witness ==
    \E c \in CallIds :
        /\ calls[c].op = "getSingleResource"
        /\ Returned(c)
        /\ Has(calls[c].outcome.value, "tenant_id")

\* C7: when the transport fails without a response, the call raises an error
\* whose message is the transport error's message, and the error is neither a
\* GraphQLError nor a ValidationError.
C7_NetworkErrorMessage ==
    \A c \in CallIds :
        (Failed(c) /\ ~HasResponse(Reason(c))) =>
            /\ Raised(c)
            /\ RaisedError(c).message = Reason(c).message
            /\ RaisedError(c).name \notin {"GraphQLError", "ValidationError"}

\* A call failed with axios' network error, which has no response.
C7_Witness ==
    \E c \in CallIds :
        /\ Failed(c)
        /\ IsAxiosError(Reason(c))
        /\ ~HasResponse(Reason(c))
        /\ Reason(c).message = Str("Network Error")

\* C8: every transport failure (an axios error: network error, non-2xx status,
\* timeout) is raised as a base ApitoError with code HTTP_ERROR, with the
\* status and body of the response when there is one, and with the body's
\* message when the body has one (a non-empty one), else the transport's.
C8_TransportFailureWrapped ==
    \A c \in CallIds :
        (Failed(c) /\ IsAxiosError(Reason(c))) =>
            LET response == Reason(c).response
                bodyMessage == Get(Get(response, "data"), "message")
            IN  /\ Raised(c)
                /\ RaisedError(c).name = "ApitoError"
                /\ RaisedError(c).code = Str("HTTP_ERROR")
                /\ RaisedError(c).statusCode =
                       (IF HasResponse(Reason(c)) THEN Get(response, "status")
                        ELSE Undefined)
                /\ RaisedError(c).details =
                       (IF HasResponse(Reason(c)) THEN Get(response, "data")
                        ELSE Undefined)
                /\ RaisedError(c).message =
                       (IF Truthy(bodyMessage) THEN bodyMessage
                        ELSE Reason(c).message)

\* A call failed with status 500 and a body that has a message.
C8_Witness ==
    \E c \in CallIds :
        /\ Failed(c)
        /\ HasResponse(Reason(c))
        /\ Get(Reason(c).response, "status") = Num(500)
        /\ Get(Get(Reason(c).response, "data"), "message") = Str("Unauthorized")

\* C9: when the post succeeds with an envelope that has no errors and lacks
\* the field the operation unwraps, getSingleResource, searchResources,
\* getRelationDocuments, createNewResource and updateResource raise a
\* ValidationError after exactly one post ('Resource not found' for
\* getSingleResource); none returns an empty or undefined result.
C9_MissingFieldRaises ==
    \A c \in CallIds :
        (/\ calls[c].op \in {"getSingleResource", "searchResources",
                             "getRelationDocuments", "createNewResource",
                             "updateResource"}
         /\ Answered(c)
         /\ CleanEnvelope(Envelope(c))
         /\ Missing(ExpectedField(c))) =>
            /\ calls[c].posts = 1
            /\ ~Returned(c)
            /\ Raised(c)
            /\ RaisedError(c).name = "ValidationError"
            /\ calls[c].op = "getSingleResource" =>
                   RaisedError(c).message = Str("Resource not found")

\* getRelationDocuments was answered with a data object without getModelData.
C9_Witness ==
    \E c \in CallIds :
        /\ calls[c].op = "getRelationDocuments"
        /\ Answered(c)
        /\ CleanEnvelope(Envelope(c))
        /\ Get(Envelope(c), "data") = EmptyObject
        /\ Raised(c)

\* The tenant id given with the call: generateTenantToken's tenantId argument.
PerCallTenant(c) ==
    IF calls[c].op = "generateTenantToken" THEN calls[c].args.tenantId
    ELSE Undefined

\* C10: a request carries X-Apito-Tenant-ID if and only if a tenant id is
\* configured on the client or supplied with the call; the header is the
\* per-call tenant id when there is one, otherwise the configured one; only
\* generateTenantToken has a per-call tenant id.
C10_TenantHeaderRule ==
    \A c \in CallIds :
        Posted(c) =>
            LET headers == calls[c].request.config.headers
                perCall == PerCallTenant(c)
            IN  /\ Has(headers, TenantHeader) <=>
                       (Truthy(config.tenantId) \/ Truthy(perCall))
                /\ Truthy(perCall) => Get(headers, TenantHeader) = perCall
                /\ (~Truthy(perCall) /\ Truthy(config.tenantId)) =>
                       Get(headers, TenantHeader) = config.tenantId

\* generateTenantToken for tenant-b was posted by a client configured for
\* tenant-a.
C10_Witness ==
    \E c \in CallIds :
        /\ calls[c].op = "generateTenantToken"
        /\ Posted(c)
        /\ config.tenantId = Str("tenant-a")
        /\ calls[c].args.tenantId = Str("tenant-b")

----------------------------------------------------------------------------
(* C11..C20 *)

\* C11: searchResources returns the envelope's getModelData value as it is:
\* the returned count is the envelope's count and the returned results are the
\* envelope's results, same number and same order, whatever the count.
C11_SearchReturnsAsIs ==
    \A c \in CallIds :
        (/\ calls[c].op = "searchResources"
         /\ Answered(c)
         /\ CleanEnvelope(Envelope(c))
         /\ TypeOf(ExpectedField(c)) = "object") =>
            /\ Returned(c)
            /\ calls[c].outcome.value = ExpectedField(c)
            /\ Get(calls[c].outcome.value, "count") = Get(ExpectedField(c), "count")
            /\ Get(calls[c].outcome.value, "results") =
                   Get(ExpectedField(c), "results")

\* searchResources returned two documents with a count of 7.
C11_Witness ==
    \E c \in CallIds :
        /\ calls[c].op = "searchResources"
        /\ Returned(c)
        /\ Get(calls[c].outcome.value, "count") = Num(7)
        /\ Get(calls[c].outcome.value, "results") = Arr(<<Doc2, Doc1>>)

\* Two results hold the same documents and the same count.
SameDocuments(op, a, b) ==
    IF op \in {"searchResourcesTyped", "getRelationDocumentsTyped"}
    THEN /\ Get(a, "results") = Get(b, "results")
         /\ Get(a, "count") = Get(b, "count")
    ELSE a = b

\* C12: each TypedOperations method issues the request the ApitoClient method
\* issues for the same input (endpoint, headers, document, variables), raises
\* the same error in the same cases, and returns the same document(s) and
\* count.
C12_TypedFacadeEquivalent ==
    \A c \in CallIds :
        calls[c].op \in TypedMethods =>
            LET direct == Invoke(client, Delegate(calls[c].op), calls[c].args)
                answer == Complete(Delegate(calls[c].op), calls[c].settled)
            IN  /\ calls[c].request = direct.request
                /\ calls[c].posts = direct.posts
                /\ direct.pc = "done" => calls[c].outcome = direct.outcome
                /\ (Done(c) /\ Posted(c) /\ answer.kind = "raised") =>
                       calls[c].outcome = answer
                /\ (Done(c) /\ Posted(c) /\ answer.kind = "returned") =>
                       /\ Returned(c)
                       /\ SameDocuments(calls[c].op, calls[c].outcome.value,
                                        answer.value)

\* searchResourcesTyped, called with a filter and without aggregate, returned
\* two documents.
C12_Witness ==
    \E c \in CallIds :
        /\ calls[c].op = "searchResourcesTyped"
        /\ calls[c].args.filter /= Undefined
        /\ calls[c].args.aggregate = Undefined
        /\ Returned(c)
        /\ Get(calls[c].outcome.value, "results") = Arr(<<Doc2, Doc1>>)

\* C13: deleteResource(model, id) sends one post with variables exactly
\* {model, _id: id} and completes without a value whenever the post succeeds
\* and the envelope has no errors, with or without data.deleteModelData; it
\* never raises a ValidationError.
C13_DeleteCompletes ==
    \A c \in CallIds :
        calls[c].op = "deleteResource" =>
            /\ calls[c].posts = 1
            /\ calls[c].request.data.variables =
                   Obj([model |-> calls[c].args.model, _id |-> calls[c].args.id])
            /\ (Answered(c) /\ CleanEnvelope(Envelope(c))) =>
                   calls[c].outcome = Return(Undefined)
            /\ Raised(c) => RaisedError(c).name /= "ValidationError"

\* deleteResource completed on an envelope whose data has no deleteModelData.
C13_Witness ==
    \E c \in CallIds :
        /\ calls[c].op = "deleteResource"
        /\ Answered(c)
        /\ Get(Envelope(c), "data") = EmptyObject
        /\ Returned(c)

\* C14: deleting the same (model, id) twice, with the backend answering
\* without errors both times, gives two successful completions, one POST each
\* with identical bodies, and the client keeps no state from either call.
C14_RepeatedDelete ==
    \A c, d \in ConcurrentIds :
        (/\ c /= d
         /\ calls[c].op = "deleteResource"
         /\ calls[d].op = "deleteResource"
         /\ calls[c].args = calls[d].args) =>
            /\ calls[c].posts = 1 /\ calls[d].posts = 1
            /\ calls[c].request.data = calls[d].request.data
            /\ client = ApitoClient(config)
            /\ \A e \in {c, d} :
                  (calls[e].pc = "done" /\ calls[e].settled.status = "fulfilled"
                   /\ CleanEnvelope(calls[e].settled.response.data)) =>
                       calls[e].outcome = Return(Undefined)

C14_Witness ==
    /\ calls["c1"].op = "deleteResource"
    /\ calls["c2"].op = "deleteResource"
    /\ calls["c1"].args = calls["c2"].args
    /\ \A e \in ConcurrentIds :
          /\ calls[e].pc = "done"
          /\ calls[e].settled.status = "fulfilled"
          /\ CleanEnvelope(calls[e].settled.response.data)
          /\ calls[e].outcome = Return(Undefined)

\* The token of the answer of a generateTenantToken call.
AnsweredToken(c) == Get(ExpectedField(c), "token")

\* C15: generateTenantToken(token, tenantId) sends the variables
\* {token, tenantId}; on an envelope without errors it returns
\* data.generateTenantToken.token when that is present, and raises
\* ValidationError('Invalid response format for tenant token') when it is not.
C15_TenantToken ==
    \A c \in CallIds :
        calls[c].op = "generateTenantToken" =>
            /\ Posted(c)
            /\ calls[c].request.data.variables =
                   Obj([token |-> calls[c].args.token,
                        tenantId |-> calls[c].args.tenantId])
            /\ (Answered(c) /\ CleanEnvelope(Envelope(c))) =>
                   IF Missing(AnsweredToken(c))
                   THEN RaisedValidation(c, "Invalid response format for tenant token")
                   ELSE calls[c].outcome = Return(AnsweredToken(c))

C15_Witness ==
    \E c \in CallIds :
        /\ calls[c].op = "generateTenantToken"
        /\ Answered(c)
        /\ CleanEnvelope(Envelope(c))
        /\ ExpectedField(c) = EmptyObject
        /\ RaisedValidation(c, "Invalid response format for tenant token")

\* C16: a call issues one POST when its argument check passes and none when
\* it fails, and that number is final: a call that has ended, whether with a
\* result, a transport failure, a GraphQL error or a missing-field
\* ValidationError, has issued no second POST.
C16_SingleRequest ==
    \A c \in CallIds :
        calls[c].pc /= "idle" =>
            /\ calls[c].posts <= 1
            /\ calls[c].posts =
                   (IF Check(calls[c].op, calls[c].args) = NoError THEN 1 ELSE 0)
            /\ (Done(c) /\ Raised(c) /\ calls[c].settled.status /= "none") =>
                   calls[c].posts = 1

C16_Witness ==
    \E c \in CallIds :
        /\ Failed(c)
        /\ IsAxiosError(Reason(c))
        /\ Raised(c)
        /\ calls[c].posts = 1

\* C17: whatever calls have been made and however they ended, the client's
\* endpoint, API key and tenant id are the ones it was constructed with, and
\* every request is addressed and authenticated from them: its url is the
\* configured endpoint, its X-Apito-Key the configured key, and, for a call
\* without a tenant id of its own, its X-Apito-Tenant-ID the configured
\* tenant id (absent when none is configured).
C17_ConfigurationImmutable ==
    /\ client.baseURL = config.baseURL
    /\ client.apiKey = config.apiKey
    /\ client.tenantId = config.tenantId
    /\ client = ApitoClient(config)
    /\ \A c \in ConcurrentIds :
          Posted(c) =>
              LET headers == calls[c].request.config.headers
              IN  /\ calls[c].request.url = config.baseURL
                  /\ Get(headers, ApiKeyHeader) = config.apiKey
                  /\ Missing(PerCallTenant(c)) =>
                        IF Truthy(config.tenantId)
                        THEN Get(headers, TenantHeader) = config.tenantId
                        ELSE ~Has(headers, TenantHeader)

\* A client configured for tenant-a has finished generateTenantToken for
\* tenant-b and has posted a getSingleResource for tenant-a.
C17_Witness ==
    /\ config.tenantId = Str("tenant-a")
    /\ calls["c1"].op = "generateTenantToken"
    /\ calls["c1"].args.tenantId = Str("tenant-b")
    /\ Done("c1")
    /\ calls["c2"].op = "getSingleResource"
    /\ calls["c2"].pc = "pending"
    /\ Get(calls["c2"].request.config.headers, TenantHeader) = Str("tenant-a")

\* C18: with several calls in flight on one client, answered in any order,
\* the request of each call is the one its own arguments and the configuration
\* given at construction determine, the outcome of each call is the one its
\* own answer determines, and a generateTenantToken(t, X) that is in flight
\* never puts X into the tenant header of another call.
C18_NoInterference ==
    \A c \in ConcurrentIds :
        Posted(c) =>
            /\ calls[c].request =
                   PostArguments(ApitoClient(config), Query(calls[c].op),
                                 Variables(calls[c].op, calls[c].args),
                                 Options(calls[c].op, calls[c].args))
            /\ Done(c) => calls[c].outcome = Complete(calls[c].op, calls[c].settled)
            /\ \A d \in ConcurrentIds \ {c} :
                  (/\ calls[d].pc = "pending"
                   /\ calls[d].op = "generateTenantToken"
                   /\ Truthy(calls[d].args.tenantId)
                   /\ calls[d].args.tenantId /= config.tenantId
                   /\ calls[d].args.tenantId /= PerCallTenant(c)) =>
                      Get(calls[c].request.config.headers, TenantHeader)
                          /= calls[d].args.tenantId

\* generateTenantToken for tenant-b is still waiting while a getSingleResource
\* of the same client, configured for tenant-a, has already returned.
C18_Witness ==
    /\ config.tenantId = Str("tenant-a")
    /\ calls["c1"].op = "generateTenantToken"
    /\ calls["c1"].args.tenantId = Str("tenant-b")
    /\ calls["c1"].pc = "pending"
    /\ calls["c2"].op = "getSingleResource"
    /\ Returned("c2")
    /\ Get(calls["c2"].request.config.headers, TenantHeader) = Str("tenant-a")

\* The post of call c ran into the transport's timeout.
TimedOut(c) ==
    /\ Failed(c)
    /\ IsAxiosError(Reason(c))
    /\ Reason(c).code = Str("ECONNABORTED")

\* C19: a call that has been started does not stay pending: once the
\* transport settles its post the call has returned or raised; and a call whose
\* post timed out has raised an ApitoError with code HTTP_ERROR, not a
\* GraphQLError and not a ValidationError.
C19_EventuallyCompletes ==
    /\ \A c \in CallIds : (calls[c].pc /= "idle") ~> Done(c)
    /\ [](\A c \in CallIds :
             /\ Done(c) => (Returned(c) \/ Raised(c))
             /\ TimedOut(c) =>
                   /\ Raised(c)
                   /\ RaisedError(c).name = "ApitoError"
                   /\ RaisedError(c).code = Str("HTTP_ERROR"))

C19_Witness ==
    \E c \in CallIds :
        /\ TimedOut(c)
        /\ RaisedError(c).name = "ApitoError"
        /\ RaisedError(c).message = Reason(c).message

\* The errors the client constructs itself; anything else a call raises is an
\* error of the transport or the runtime that the catch block passed on.
ClientErrors == {"ApitoError", "GraphQLError", "ValidationError"}

\* The answer of call c lacks what the operation unwraps from it.
FieldAbsent(c) ==
    IF calls[c].op = "generateTenantToken"
    THEN Missing(AnsweredToken(c))
    ELSE Missing(ExpectedField(c))

\* C20: each error the client raises has the code of its kind:
\* ValidationError VALIDATION_ERROR, GraphQLError GRAPHQL_ERROR, and the
\* ApitoError that wraps a transport failure HTTP_ERROR.  A ValidationError is
\* raised either by the argument check, before any POST, or after a POST
\* answered without errors whose expected field is absent; never after a
\* transport failure.  An error of any other kind is one the catch block
\* passed on unchanged.
C20_ErrorClassification ==
    \A c \in CallIds :
        Raised(c) =>
            LET e == RaisedError(c)
            IN  /\ e.name = "ValidationError" =>
                      /\ e.code = Str("VALIDATION_ERROR")
                      /\ ~Failed(c)
                      /\ \/ ~Posted(c) /\ Check(calls[c].op, calls[c].args) /= NoError
                         \/ /\ Answered(c)
                            /\ CleanEnvelope(Envelope(c))
                            /\ FieldAbsent(c)
                /\ e.name = "GraphQLError" =>
                      /\ e.code = Str("GRAPHQL_ERROR")
                      /\ Answered(c)
                      /\ HasErrors(Envelope(c))
                /\ e.name = "ApitoError" =>
                      /\ e.code = Str("HTTP_ERROR")
                      /\ Failed(c)
                      /\ IsAxiosError(Reason(c))
                /\ e.name \notin ClientErrors =>
                      \/ Failed(c) /\ ~IsAxiosError(Reason(c)) /\ e = Reason(c)
                      \/ Answered(c) /\ Envelope(c) = Null /\ e.name = "TypeError"
                /\ (Failed(c) /\ IsAxiosError(Reason(c))) => e.name = "ApitoError"

C20_Witness ==
    \E c \in CallIds :
        /\ calls[c].op = "searchResources"
        /\ Answered(c)
        /\ CleanEnvelope(Envelope(c))
        /\ FieldAbsent(c)
        /\ RaisedError(c).name = "ValidationError"
        /\ RaisedError(c).code = Str("VALIDATION_ERROR")

----------------------------------------------------------------------------
(* C21..C30 *)

\* C21: an ApitoError constructed with a message has that message and the
\* name 'ApitoError'; one constructed with a code exposes that code; and one
\* constructed with a message, no code and a list of GraphQL errors as its
\* third argument exposes that list as its graphQLErrors property.
C21_ApitoErrorFields ==
    \A c \in CallIds :
        (Done(c) /\ calls[c].op = "ApitoError") =>
            LET error == calls[c].outcome.value
                message == calls[c].args[1]
                code == calls[c].args[2]
                third == calls[c].args[3]
            IN  /\ Property(error, "message") = message
                /\ Property(error, "name") = "ApitoError"
                /\ Property(error, "code") = code
                /\ (code = Undefined /\ TypeOf(third) = "array") =>
                       Property(error, "graphQLErrors") = third

\* C22: debug(stage, ...data) sends one POST with the variables
\* {stage, data} and, when the envelope has no errors, returns whatever the
\* envelope holds under data.debug: it never raises then, and the result is
\* undefined when the field is absent.
C22_DebugUnvalidated ==
    \A c \in CallIds :
        calls[c].op = "debug" =>
            /\ calls[c].posts = 1
            /\ calls[c].request.data.variables =
                   Obj([stage |-> calls[c].args.stage, data |-> calls[c].args.data])
            /\ (Answered(c) /\ CleanEnvelope(Envelope(c))) =>
                   /\ Returned(c)
                   /\ calls[c].outcome.value = ExpectedField(c)

C22_Witness ==
    \E c \in CallIds :
        /\ calls[c].op = "debug"
        /\ Length(calls[c].args.data) = 2
        /\ Answered(c)
        /\ CleanEnvelope(Envelope(c))
        /\ ~Has(Get(Envelope(c), "data"), "debug")
        /\ calls[c].outcome = Return(Undefined)

\* The timeout of the client's transport: the one among the transport
\* overrides when they have one, otherwise the configured timeout when it is
\* given and not 0, otherwise 30000 ms.
ExpectedTimeout ==
    IF Has(config.httpClient, "timeout") THEN Get(config.httpClient, "timeout")
    ELSE IF Truthy(config.timeout) THEN config.timeout
    ELSE Num(30000)

\* C23 as stated: the timeout handed to the transport is the configured
\* timeout when one is given at construction and 30000 ms when none is given,
\* and no operation or outcome changes it.
C23_TimeoutAsConfigured ==
    \A c \in CallIds :
        Posted(c) =>
            EffectiveTimeout(client, calls[c].request) =
                (IF config.timeout /= Undefined THEN config.timeout ELSE Num(30000))

\* C23 as amended: the timeout handed to the transport is the timeout of the
\* transport overrides when they carry one, otherwise the configured timeout
\* when it is given and not 0, otherwise 30000 ms; it is the same for every
\* request of the client, before and after every outcome.
C23_TimeoutFixed ==
    /\ client.httpClient.defaults.timeout = ExpectedTimeout
    /\ \A c \in CallIds :
          Posted(c) => EffectiveTimeout(client, calls[c].request) = ExpectedTimeout

\* A client given timeout 5000 and transport overrides with timeout 1000 has
\* had a post time out.
C23_Witness ==
    \E c \in CallIds :
        /\ config.timeout = Num(5000)
        /\ Get(config.httpClient, "timeout") = Num(1000)
        /\ TimedOut(c)
        /\ EffectiveTimeout(client, calls[c].request) = Num(1000)

FilterVariables == {"page", "limit", "where", "search"}

\* C24: the variables of a getRelationDocuments request are the connection
\* (the whole map), model = connection.model, and those of page, limit, where
\* and search that connection.filter has; no other key of the filter is a
\* variable, and without a filter none of the four is.
C24_RelationFilterCopied ==
    \A c \in CallIds :
        (calls[c].op = "getRelationDocuments" /\ Posted(c)) =>
            LET connection == calls[c].args.connection
                filter == Get(connection, "filter")
                variables == calls[c].request.data.variables
                copied == {k \in FilterVariables : Get(filter, k) /= Undefined}
            IN  /\ DOMAIN Props(variables) = {"connection", "model"} \cup copied
                /\ Get(variables, "connection") = connection
                /\ Get(variables, "model") = Get(connection, "model")
                /\ \A k \in copied : Get(variables, k) = Get(filter, k)
                /\ ~Has(connection, "filter") =>
                       DOMAIN Props(variables) = {"connection", "model"}

\* A filter with page, limit and sort was given: sort is not a variable.
C24_Witness ==
    \E c \in CallIds :
        /\ calls[c].op = "getRelationDocuments"
        /\ Posted(c)
        /\ Has(Get(calls[c].args.connection, "filter"), "sort")
        /\ DOMAIN Props(calls[c].request.data.variables) =
               {"connection", "model", "page", "limit"}

\* C25: an error raised during a call that is not an axios error reaches the
\* caller as it was raised: the transport's own non-axios rejection, the
\* TypeError of reading a response without a body, and the GraphQLError the
\* executor raises inside its try block all pass the catch block unchanged,
\* none becomes an ApitoError with code HTTP_ERROR or a ValidationError.
C25_OtherErrorsPropagate ==
    \A c \in CallIds :
        /\ (Failed(c) /\ ~IsAxiosError(Reason(c))) =>
               calls[c].outcome = Throw(Reason(c))
        /\ (Answered(c) /\ Envelope(c) = Null) =>
               /\ Raised(c)
               /\ RaisedError(c).name = "TypeError"
        /\ (Answered(c) /\ HasErrors(Envelope(c))) =>
               calls[c].outcome =
                   Throw(GraphQLError(Str("GraphQL query failed"),
                                      Get(Envelope(c), "errors"), Envelope(c)))

C25_Witness ==
    \E c \in CallIds :
        /\ Answered(c)
        /\ Envelope(c) = Null
        /\ RaisedError(c).name = "TypeError"

\* C26: the model variable of a searchResources request is the model
\* argument, whatever keys the filter has (a model key included), and the
\* other variables are exactly the entries of the filter.
C26_SearchModelArgument ==
    \A c \in CallIds :
        (calls[c].op = "searchResources" /\ Posted(c)) =>
            LET filter == Props(DefaultParam(calls[c].args.filter, EmptyObject))
                variables == calls[c].request.data.variables
            IN  /\ Get(variables, "model") = calls[c].args.model
                /\ DOMAIN Props(variables) = {"model"} \cup DOMAIN filter
                /\ \A k \in (DOMAIN filter) \ {"model"} :
                       Get(variables, k) = filter[k]

\* C27: the request of getRelationDocuments does not depend on the id
\* argument: it is the request the same call with any other id sends (same
\* document, same variables), and apart from the connection map, which is the
\* caller's, no variable holds the id.
C27_RelationIgnoresId ==
    \A c \in CallIds :
        (calls[c].op = "getRelationDocuments" /\ Posted(c)) =>
            LET variables == calls[c].request.data.variables
            IN  /\ \A other \in Ids :
                      calls[c].request =
                          Invoke(ApitoClient(config), "getRelationDocuments",
                                 [id |-> other,
                                  connection |-> calls[c].args.connection]).request
                /\ calls[c].request.data.query = RelationQuery
                /\ ~Has(variables, "_id") /\ ~Has(variables, "id")
                /\ \A k \in (DOMAIN Props(variables)) \ {"connection"} :
                      Get(variables, k) /= calls[c].args.id

\* A call with id 456 whose connection map holds _id 123 has been posted.
C27_Witness ==
    \E c \in CallIds :
        /\ calls[c].op = "getRelationDocuments"
        /\ Posted(c)
        /\ calls[c].args.id = Str("456")
        /\ Get(calls[c].args.connection, "_id") = Str("123")
        /\ Get(Get(calls[c].request.data.variables, "connection"), "_id") = Str("123")

\* C28: a createNewResource request that passes the argument check sends
\* variables with exactly the keys model, payload and single_page_data (false
\* unless singlePageData is set), and connect when the request has one; the
\* request's id, disconnect and forceUpdate are not sent, so there is no _id.
C28_CreateVariables ==
    \A c \in CallIds :
        (calls[c].op = "createNewResource" /\ Posted(c)) =>
            LET request == calls[c].args.request
                variables == calls[c].request.data.variables
            IN  /\ DOMAIN Props(variables) =
                       {"model", "payload", "single_page_data"}
                       \cup (IF Missing(Get(request, "connect")) THEN {}
                             ELSE {"connect"})
                /\ Get(variables, "model") = Get(request, "model")
                /\ Get(variables, "payload") = Get(request, "payload")
                /\ Get(variables, "single_page_data") =
                       (IF Get(request, "singlePageData") = Bool(TRUE)
                        THEN Bool(TRUE) ELSE Bool(FALSE))
                /\ ~Missing(Get(request, "connect")) =>
                       Get(variables, "connect") = Get(request, "connect")

\* A create whose request carries an id, disconnect, forceUpdate and connect.
C28_Witness ==
    \E c \in CallIds :
        /\ calls[c].op = "createNewResource"
        /\ Posted(c)
        /\ Has(calls[c].args.request, "id")
        /\ Truthy(Get(calls[c].args.request, "id"))
        /\ Has(calls[c].args.request, "disconnect")
        /\ Has(calls[c].args.request, "forceUpdate")
        /\ Has(calls[c].request.data.variables, "connect")
        /\ ~Has(calls[c].request.data.variables, "_id")

\* The envelope without its errors member.
WithoutErrors(body) ==
    Obj([k \in (DOMAIN Props(body)) \ {"errors"} |-> Props(body)[k]])

\* C29: an envelope whose errors member is present and empty is a success:
\* no GraphQLError is raised, and the call ends exactly as it does for the same
\* envelope without an errors member.
C29_EmptyErrorsSucceed ==
    \A c \in CallIds :
        (Answered(c) /\ Get(Envelope(c), "errors") = Arr(<<>>)) =>
            /\ ~(Raised(c) /\ RaisedError(c).name = "GraphQLError")
            /\ calls[c].outcome = Result(calls[c].op, WithoutErrors(Envelope(c)))

C29_Witness ==
    \E c \in CallIds :
        /\ calls[c].op = "updateResource"
        /\ Answered(c)
        /\ Get(Envelope(c), "errors") = Arr(<<>>)
        /\ Returned(c)
        /\ calls[c].outcome.value = ExpectedField(c)

\* C30: every POST carries Content-Type: application/json and X-Apito-Key
\* equal to the API key given at construction, in the headers the call passes
\* and in the headers that go out after the defaults of the instance are
\* merged in, for every configuration, transport overrides with headers of
\* their own included.
C30_FixedHeaders ==
    \A c \in CallIds :
        Posted(c) =>
            \A headers \in {calls[c].request.config.headers,
                            EffectiveHeaders(client, calls[c].request)} :
                /\ Get(headers, ContentTypeHeader) = Str("application/json")
                /\ Get(headers, ApiKeyHeader) = config.apiKey

\* A client whose transport overrides set another API key has posted.
C30_Witness ==
    \E c \in CallIds :
        /\ Posted(c)
        /\ Get(Get(config.httpClient, "headers"), ApiKeyHeader) = Str("other-key")
        /\ Get(client.httpClient.defaults.headers, ApiKeyHeader) = Str("other-key")
        /\ Get(EffectiveHeaders(client, calls[c].request), ApiKeyHeader)
               = Str("test-api-key")

====
